---- MODULE Spec2Model ----
(***************************************************************************)
(* Model of quest: publish.sync_s3_with_source (mirror an HTTP directory   *)
(* listing into an S3 bucket), publish.upload_to_s3, fetch.fetch_api_data  *)
(* and the lambda_function.handle_sync entry point that runs the two.      *)
(*                                                                         *)
(* The bucket is a partial function from keys to the ETag S3 reports for   *)
(* the object.  A sync pass is split into the steps at which it talks to   *)
(* the source or the bucket, so that a process kill (Crash) can fall       *)
(* between any two of them.                                                *)
(***************************************************************************)
EXTENDS Integers, Sequences, FiniteSets, TLC

\* ------------------------------------------------------------- bounds
MaxFiles == 2       \* longest source listing

\* ------------------------------------------------------- source files
\* A locator is the path of a file URL, as its sequence of segments.
Locators == { <<"pub", "a.txt">>, <<"pub", "b.txt">>, <<"old", "a.txt">> }

\* The bytes behind a locator: which bytes they are, and whether they are
\* so many that the managed transfer of upload_file sends them in several
\* parts. The code only ever tests digests for equality, so two small
\* files and a large one are all the contents there are to tell apart.
Contents ==
    { [bytes |-> "x", multipart |-> FALSE],
      [bytes |-> "y", multipart |-> FALSE],
      [bytes |-> "z", multipart |-> TRUE] }

\* The JSON document fetch_api_data writes.
ApiPayload == [bytes |-> "json", multipart |-> FALSE]

s3_file_name == "api_data.json"

\* bucket.objects.all() lists keys in the bucket's key order.
KeyOrder == << "a.txt", "api_data.json", "b.txt" >>

Keys == { KeyOrder[n] : n \in 1..Len(KeyOrder) }

\* ------------------------------------------------------ pure functions
\* os.path.basename(urlparse(file_url).path): the final path segment.
basename_first(file_url) == file_url[1]

basename(file_url) == file_url[Len(file_url)]

\* The object_name sync_s3_with_source hands to upload_to_s3: file_name.
object_name_dir(file_url) == file_url[1]

object_name(file_url) == basename(file_url)

\* url_file_names, as the set the membership test of the delete loop reads.
url_file_names(urls) == { basename(urls[n]) : n \in 1..Len(urls) }

\* hashlib.md5 over the file's bytes, hex-encoded.
md5_checksum_const(c) == [quoted |-> FALSE, algo |-> "md5", of |-> "x"]

md5_checksum(c) == [quoted |-> FALSE, algo |-> "md5", of |-> c.bytes]

\* The ETag S3 assigns on upload_file: the quoted MD5 of the bytes for a
\* single-part upload, the quoted MD5 of the part digests with a part-count
\* suffix for a multipart upload.
ETag(c) ==
    IF c.multipart
    THEN [quoted |-> TRUE, algo |-> "md5-of-parts", of |-> c.bytes]
    ELSE [quoted |-> TRUE, algo |-> "md5", of |-> c.bytes]

\* e_tag.strip('"')
strip_keep(e_tag) == e_tag

strip(e_tag) == [e_tag EXCEPT !.quoted = FALSE]

\* response.raise_for_status(): raises for 4xx and 5xx.
raise_for_status_never(r) == FALSE

raise_for_status(r) == r.status_code >= 400

\* What requests.get can come back with: an exception, or a response.
Responses ==
    { [raised |-> TRUE, status_code |-> 0] } \cup
    { [raised |-> FALSE, status_code |-> s] : s \in {200, 404} }

NoResponse == [raised |-> FALSE, status_code |-> 0]

\* `s3_file not in url_file_names`
Orphaned_never(s3_file, names) == FALSE

Orphaned_always(s3_file, names) == TRUE

Orphaned(s3_file, names) == s3_file \notin names

\* The order of the steps of sync_s3_with_source: listing, inventory,
\* delete loop, upload loop, "Successfully synced".
PhaseAfter_swapped(p) ==
    CASE p = "list" -> "inventory"
      [] p = "inventory" -> "download"
      [] p = "download" -> "delete"
      [] p = "delete" -> "synced"

PhaseAfter(p) ==
    CASE p = "list" -> "inventory"
      [] p = "inventory" -> "delete"
      [] p = "delete" -> "download"
      [] p = "download" -> "synced"

\* ------------------------------------------------------------- bucket
Present(s) == DOMAIN s

\* s3_resource.Object(bucket, key).delete(): removes the key; a key that is
\* not there is not an error.
S3Delete(s, k) == [x \in (DOMAIN s) \ {k} |-> s[x]]

\* _S3_CLIENT.upload_file(file, bucket, key): creates or overwrites.
S3Put(s, k, c) == [x \in (DOMAIN s) \cup {k} |-> IF x = k THEN ETag(c) ELSE s[x]]

\* [obj.key for obj in bucket.objects.all()]
Inventory_first_key(s) ==
    LET all == SelectSeq(KeyOrder, LAMBDA k : k \in DOMAIN s)
    IN IF all = << >> THEN << >> ELSE << Head(all) >>

Inventory(s) == SelectSeq(KeyOrder, LAMBDA k : k \in DOMAIN s)

\* ---------------------------------------------------------------- state
VARIABLES
    listing,        \* the file URLs the source directory publishes
    content,        \* the bytes behind each locator
    store,          \* the bucket: key -> ETag
    status,         \* idle | running | synced | fetched | aborted | crashed
    pc,             \* the step the pass is at (where it stopped, once over)
    response,       \* the last HTTP response
    file_urls,      \* local of sync_s3_with_source
    s3_files,       \* local of sync_s3_with_source
    i,              \* index of the delete loop in s3_files
    j,              \* index of the upload loop in file_urls
    tempFiles,      \* temporary files this invocation has left on the disk
    deletes,        \* delete() calls issued in this pass
    uploads,        \* upload_to_s3 calls made in this pass
    fetches,        \* download_file_to_temp calls made in this pass
    failed,         \* some call of this pass met an error
    prev,           \* how the invocation before this one ended
    store_at_start, \* the bucket when this pass started
    fetch_ret,      \* what fetch_api_data returned
    attempts,       \* upload_to_s3 calls made in this pass, by source entry
    ext             \* what another actor has done to the bucket during this pass

vars == << listing, content, store, status, pc, response, file_urls,
           s3_files, i, j, tempFiles, deletes, uploads, fetches, failed,
           prev, store_at_start, fetch_ret, attempts, ext >>

source == << listing, content >>
locals == << file_urls, s3_files, i, j >>
counts == << deletes, uploads, fetches, attempts >>
history == << prev, store_at_start, ext >>

Listings ==
    UNION { [1..n -> Locators] : n \in 0..MaxFiles }

Distinct(urls) ==
    \A m, n \in 1..Len(urls) : m # n => urls[m] # urls[n]

\* No other actor has touched the bucket.
NoExt == [op |-> "none", key |-> "none", at |-> "none", n |-> 0]

DefaultContent == [bytes |-> "x", multipart |-> FALSE]

Init ==
    /\ listing \in { l \in Listings : Distinct(l) }
    /\ content \in { f \in [Locators -> Contents] :
                       \A u \in Locators :
                          u \notin { listing[n] : n \in 1..Len(listing) }
                             => f[u] = DefaultContent }
    /\ \E present \in SUBSET Keys :
          store \in { s \in [present -> { ETag(c) : c \in Contents \cup {ApiPayload} }] :
                        \A k \in present :
                           (k = s3_file_name) <=> (s[k] = ETag(ApiPayload)) }
    /\ status = "idle"
    /\ pc = "list"
    /\ response = NoResponse
    /\ file_urls = << >>
    /\ s3_files = << >>
    /\ i = 1
    /\ j = 1
    /\ tempFiles = {}
    /\ deletes = 0
    /\ uploads = 0
    /\ fetches = 0
    /\ failed = FALSE
    /\ prev = "none"
    /\ store_at_start = store
    /\ fetch_ret = "none"
    /\ attempts = [n \in 1..Len(listing) |-> 0]
    /\ ext = NoExt


\* --------------------------------------------------------------- steps
\* Move to step p; the step after the upload loop is the return of the pass.
Goto(p) ==
    /\ pc' = p
    /\ status' = IF p = "synced" THEN "synced" ELSE status

\* An exception leaves sync_s3_with_source: the pass is over where it stands.
Raise ==
    /\ status' = "aborted"
    /\ failed' = TRUE
    /\ pc' = pc

\* The file the j-th download of this pass writes.
temp_file_path == j

\* How the invocation that is over ended: the sync returned and had met no
\* error (and nothing has written to the bucket since), the process was
\* killed, or anything else.
HowEnded ==
    CASE status = "synced" /\ ~failed -> "clean"
      [] status = "crashed" -> "crashed"
      [] OTHER -> "other"

\* An invocation: publish.main, lambda_function.main or handle_sync calls
\* sync_s3_with_source with an http(s) source URL.
StartPass ==
    /\ status # "running"
    /\ status' = "running"
    /\ pc' = "list"
    /\ response' = NoResponse
    /\ file_urls' = << >>
    /\ s3_files' = << >>
    /\ i' = 1
    /\ j' = 1
    /\ deletes' = 0
    /\ uploads' = 0
    /\ fetches' = 0
    /\ failed' = FALSE
    /\ prev' = HowEnded
    /\ tempFiles' = {}
    /\ store_at_start' = store
    /\ fetch_ret' = "none"
    /\ attempts' = [n \in 1..Len(listing) |-> 0]
    /\ ext' = NoExt
    /\ UNCHANGED << source, store >>

\* requests.get(source_url), raise_for_status(), and the parse of the body
\* into file_urls.
GetListing ==
    /\ status = "running" /\ pc = "list"
    /\ \E r \in Responses :
          /\ response' = r
          /\ IF r.raised \/ raise_for_status(r)
             THEN Raise /\ UNCHANGED file_urls
             ELSE /\ file_urls' = IF r.status_code = 200 THEN listing ELSE << >>
                  /\ Goto(PhaseAfter("list"))
                  /\ UNCHANGED failed
    /\ UNCHANGED << source, store, s3_files, i, j, tempFiles, counts,
                    history, fetch_ret >>

\* s3_files = [obj.key for obj in bucket.objects.all()]
GetInventory ==
    /\ status = "running" /\ pc = "inventory"
    /\ \E ok \in BOOLEAN :
          IF ok
          THEN /\ s3_files' = Inventory(store)
               /\ Goto(PhaseAfter("inventory"))
               /\ UNCHANGED failed
          ELSE Raise /\ UNCHANGED s3_files
    /\ UNCHANGED << source, store, response, file_urls, i, j, tempFiles,
                    counts, history, fetch_ret >>

\* One iteration of `for s3_file in s3_files`.
DeleteStep ==
    /\ status = "running" /\ pc = "delete"
    /\ i <= Len(s3_files)
    /\ IF Orphaned(s3_files[i], url_file_names(file_urls))
       THEN /\ deletes' = deletes + 1
            /\ \E ok \in BOOLEAN :
                  IF ok
                  THEN /\ store' = S3Delete(store, s3_files[i])
                       /\ i' = i + 1
                       /\ UNCHANGED << status, pc, failed >>
                  ELSE Raise /\ UNCHANGED << store, i >>
       ELSE /\ i' = i + 1
            /\ UNCHANGED << store, deletes, status, pc, failed >>
    /\ UNCHANGED << source, response, file_urls, s3_files, j, tempFiles,
                    uploads, fetches, attempts, history, fetch_ret >>

\* The delete loop has run out of keys.
DeleteDone ==
    /\ status = "running" /\ pc = "delete"
    /\ i > Len(s3_files)
    /\ Goto(PhaseAfter("delete"))
    /\ UNCHANGED << source, store, response, locals, tempFiles, counts,
                    failed, history, fetch_ret >>

\* temp_file_path = download_file_to_temp(file_url)
Download ==
    /\ status = "running" /\ pc = "download"
    /\ j <= Len(file_urls)
    /\ fetches' = fetches + 1
    /\ \E r \in Responses :
          /\ response' = r
          /\ IF r.raised \/ raise_for_status(r)
             THEN Raise /\ UNCHANGED tempFiles
             ELSE /\ tempFiles' = tempFiles \cup {temp_file_path}
                  /\ pc' = "compare"
                  /\ UNCHANGED << status, failed >>
    /\ UNCHANGED << source, store, locals, deletes, uploads, attempts,
                    history, fetch_ret >>

\* The upload loop has run out of URLs: log "Successfully synced", return.
UploadDone ==
    /\ status = "running" /\ pc = "download"
    /\ j > Len(file_urls)
    /\ Goto(PhaseAfter("download"))
    /\ UNCHANGED << source, store, response, locals, tempFiles, counts,
                    failed, history, fetch_ret >>

\* The end of one iteration of `for file_url in file_urls`.
NextEntry ==
    /\ j' = j + 1
    /\ pc' = "download"

\* The `except ClientError` handler of the loop body: upload the file.
ExceptClientError_skip == NextEntry

ExceptClientError ==
    /\ pc' = "upload_new"
    /\ UNCHANGED j

\* bucket.Object(file_name).e_tag, md5_checksum(temp_file_path) and the
\* comparison. The lookup raises ClientError for a key that is not there;
\* it can also raise it for another reason, or raise something else.
Compare ==
    /\ status = "running" /\ pc = "compare"
    /\ LET file_url == file_urls[j]
           file_name == basename(file_url)
       IN \E o \in {"ok", "ClientError", "OtherError"} :
             CASE o = "ok" /\ file_name \in Present(store) ->
                    LET s3_checksum == strip(store[file_name])
                        file_checksum == md5_checksum(content[file_url])
                    IN /\ IF file_checksum # s3_checksum
                          THEN pc' = "upload" /\ UNCHANGED j
                          ELSE NextEntry
                       /\ UNCHANGED << status, failed >>
               [] o = "ok" /\ file_name \notin Present(store) ->
                    /\ ExceptClientError
                    /\ UNCHANGED << status, failed >>
               [] o = "ClientError" ->
                    /\ ExceptClientError
                    /\ failed' = TRUE
                    /\ UNCHANGED status
               [] o = "OtherError" ->
                    Raise /\ UNCHANGED j
    /\ UNCHANGED << source, store, response, file_urls, s3_files, i,
                    tempFiles, counts, history, fetch_ret >>

\* What _S3_CLIENT.upload_file can do.
UploadOutcomes ==
    {"ok", "FileNotFoundError", "NoCredentialsError", "ClientError", "OtherError"}

\* The handlers of upload_to_s3: these two are logged and dropped, every
\* other exception is logged and raised again.
Swallowed(o) == o \in {"FileNotFoundError", "NoCredentialsError"}

\* upload_to_s3 in the try block (the checksums differ).
Upload ==
    /\ status = "running" /\ pc = "upload"
    /\ uploads' = uploads + 1
    /\ attempts' = [attempts EXCEPT ![j] = @ + 1]
    /\ LET file_url == file_urls[j]
       IN \E o \in UploadOutcomes :
             CASE o = "ok" ->
                    /\ store' = S3Put(store, object_name(file_url), content[file_url])
                    /\ NextEntry
                    /\ UNCHANGED << status, failed >>
               [] Swallowed(o) ->
                    /\ failed' = TRUE
                    /\ NextEntry
                    /\ UNCHANGED << status, store >>
               [] o = "ClientError" ->
                    /\ failed' = TRUE
                    /\ ExceptClientError
                    /\ UNCHANGED << status, store >>
               [] o = "OtherError" ->
                    Raise /\ UNCHANGED << store, j >>
    /\ UNCHANGED << source, response, file_urls, s3_files, i, tempFiles,
                    deletes, fetches, history, fetch_ret >>

\* upload_to_s3 in the `except ClientError` handler.
UploadNew ==
    /\ status = "running" /\ pc = "upload_new"
    /\ uploads' = uploads + 1
    /\ attempts' = [attempts EXCEPT ![j] = @ + 1]
    /\ LET file_url == file_urls[j]
       IN \E o \in UploadOutcomes :
             CASE o = "ok" ->
                    /\ store' = S3Put(store, object_name(file_url), content[file_url])
                    /\ NextEntry
                    /\ UNCHANGED << status, failed >>
               [] Swallowed(o) ->
                    /\ failed' = TRUE
                    /\ NextEntry
                    /\ UNCHANGED << status, store >>
               [] OTHER ->
                    Raise /\ UNCHANGED << store, j >>
    /\ UNCHANGED << source, response, file_urls, s3_files, i, tempFiles,
                    deletes, fetches, history, fetch_ret >>

\* handle_sync and lambda_function.main go on to fetch_api_data once the
\* sync has returned.
FetchApi ==
    /\ status = "synced"
    /\ status' = "fetched"
    /\ \E r \in { x \in Responses : ~x.raised } :
          /\ response' = r
          /\ IF r.status_code = 200
             THEN /\ tempFiles' = tempFiles \cup {0}
                  /\ \E o \in UploadOutcomes :
                        CASE o = "ok" ->
                               /\ store' = S3Put(store, s3_file_name, ApiPayload)
                               /\ fetch_ret' = "0"
                          [] Swallowed(o) ->
                               /\ fetch_ret' = "0"
                               /\ UNCHANGED store
                          [] OTHER ->
                               /\ fetch_ret' = "raised"
                               /\ UNCHANGED store
             ELSE /\ fetch_ret' = "1"
                  /\ UNCHANGED << store, tempFiles >>
    /\ UNCHANGED << source, pc, locals, counts, failed, history >>

\* The process is killed in the middle of a pass.
Crash ==
    /\ status = "running"
    /\ status' = "crashed"
    /\ UNCHANGED << source, store, pc, response, locals, tempFiles,
                    counts, failed, history, fetch_ret >>

Next ==
    \/ StartPass
    \/ GetListing
    \/ GetInventory
    \/ DeleteStep
    \/ DeleteDone
    \/ Download
    \/ UploadDone
    \/ Compare
    \/ Upload
    \/ UploadNew
    \/ FetchApi
    \/ Crash

Spec == Init /\ [][Next]_vars

\* Another actor deletes or writes one key of the bucket while a pass runs
\* (once per pass).
External ==
    /\ status = "running"
    /\ ext = NoExt
    /\ \E k \in Keys :
          \/ /\ k \in DOMAIN store
             /\ store' = S3Delete(store, k)
             /\ ext' = [op |-> "delete", key |-> k, at |-> pc,
                        n |-> IF pc = "delete" THEN i ELSE j]
          \/ /\ store' = S3Put(store, k, DefaultContent)
             /\ ext' = [op |-> "put", key |-> k, at |-> pc,
                        n |-> IF pc = "delete" THEN i ELSE j]
    /\ UNCHANGED << source, status, pc, response, locals, tempFiles, counts,
                    failed, prev, store_at_start, fetch_ret >>

\* The first invocation.
StartOnce == status = "idle" /\ StartPass

NextExt ==
    \/ StartOnce
    \/ GetListing
    \/ GetInventory
    \/ DeleteStep
    \/ DeleteDone
    \/ Download
    \/ UploadDone
    \/ Compare
    \/ Upload
    \/ UploadNew
    \/ External

\* The states of Init with small source files only, and a bucket that
\* holds nothing but the default content and the API document.
InitExt ==
    /\ Init
    /\ \A u \in Locators : ~content[u].multipart
    /\ \A k \in DOMAIN store : store[k] \in {ETag(DefaultContent), ETag(ApiPayload)}

\* One pass of the program, sharing the bucket with another writer.
SpecExt == InitExt /\ [][NextExt]_vars


\* ------------------------------------------------------------ properties
\* The logical names of the source entries.
SourceNames == { l[Len(l)] : l \in { listing[n] : n \in 1..Len(listing) } }

\* The pass has got past its delete loop.
PastDeletion == pc \in {"download", "compare", "upload", "upload_new", "synced"}

\* Locators with the same logical name carry the same bytes.
SameNameSameContent ==
    \A m, n \in 1..Len(listing) :
       listing[m][Len(listing[m])] = listing[n][Len(listing[n])]
          => content[listing[m]] = content[listing[n]]

\* Every source file is small enough to be uploaded in one part.
SinglePart == \A n \in 1..Len(listing) : ~content[listing[n]].multipart

\* The n-th source entry is the last one with its logical name.
LastOfName(n) ==
    \A m \in (n + 1)..Len(listing) :
       listing[m][Len(listing[m])] # listing[n][Len(listing[n])]

\* This pass is the second of two clean passes in a row: the one before
\* returned normally and met no error, nothing wrote to the bucket in
\* between, and this one has met no error so far.
SecondCleanRun ==
    /\ status \in {"running", "synced"}
    /\ prev = "clean"
    /\ ~failed

\* This pass is a re-run after a crashed pass, it has returned normally and
\* met no error.
CleanRerunAfterCrash ==
    /\ status = "synced"
    /\ prev = "crashed"
    /\ ~failed

\* C1. Mirror invariant: when a sync pass returns having met no error, the
\* keys of the bucket are exactly the logical names of the source entries.
C1_MirrorInvariant ==
    (status = "synced" /\ ~failed) => Present(store) = SourceNames

C1_Witness ==
    /\ status = "synced" /\ ~failed
    /\ Len(listing) = 2
    /\ deletes > 0
    /\ uploads > 0

\* C2 as claimed. Idempotence for every source listing: the second of two
\* clean passes in a row issues no delete and no upload and leaves the
\* bucket as it found it.
C2_IdempotentAnyListing ==
    SecondCleanRun =>
       (deletes = 0 /\ uploads = 0 /\ store = store_at_start)

\* C2 as amended. Idempotence for a listing whose same-named locators carry
\* the same bytes and whose files are all uploaded in a single part: the
\* second of two clean passes in a row issues no delete and no upload and
\* leaves the bucket as it found it.
C2_Idempotent ==
    (SecondCleanRun /\ SameNameSameContent /\ SinglePart) =>
       (deletes = 0 /\ uploads = 0 /\ store = store_at_start)

C2_Witness ==
    /\ SecondCleanRun /\ SameNameSameContent /\ SinglePart
    /\ status = "synced"
    /\ Len(listing) = 2
    /\ fetches = 2

\* C3. Deletion before upload: within a pass every delete is issued while
\* no source entry has been fetched or uploaded yet, and every fetch and
\* upload is made with the delete loop at its end.
C3_DeleteBeforeUpload ==
    [][ /\ (deletes' > deletes => (fetches = 0 /\ uploads = 0))
        /\ ((fetches' > fetches \/ uploads' > uploads) => i > Len(s3_files))
      ]_vars

C3_Witness ==
    /\ status = "running"
    /\ deletes > 0
    /\ fetches > 1
    /\ uploads > 0

\* C4. Valid intermediate state: once the delete loop of a pass is over, in
\* every later state of the pass, whether it goes on, is killed, aborts or
\* returns, every key of the bucket is a source logical name.
C4_ValidIntermediate ==
    (status \in {"running", "crashed", "aborted", "synced"} /\ PastDeletion)
       => Present(store) \subseteq SourceNames

C4_Witness ==
    /\ status = "crashed"
    /\ pc = "compare"
    /\ j = 2
    /\ deletes > 0
    /\ uploads > 0

\* C5 as claimed. Recovery on retry: a clean re-run after a crashed pass
\* ends with the bucket holding exactly the source names, each under a
\* fingerprint equal to the MD5 digest of the source entry's bytes.
C5_RerunMirrorsDigests ==
    CleanRerunAfterCrash =>
       /\ Present(store) = SourceNames
       /\ \A n \in 1..Len(listing) :
             /\ listing[n][Len(listing[n])] \in Present(store)
             /\ strip(store[listing[n][Len(listing[n])]])
                   = md5_checksum(content[listing[n]])

\* C5 as amended. Recovery on retry: a clean re-run after a crashed pass
\* ends with the bucket holding exactly the source names, each under the
\* fingerprint of the bytes of the last source entry of that name: their
\* MD5 digest, or the ETag the store gave them on upload.
C5_RecoveryOnRetry ==
    CleanRerunAfterCrash =>
       /\ Present(store) = SourceNames
       /\ \A n \in 1..Len(listing) :
             LastOfName(n) =>
                /\ listing[n][Len(listing[n])] \in Present(store)
                /\ strip(store[listing[n][Len(listing[n])]])
                      \in { md5_checksum(content[listing[n]]),
                            strip(ETag(content[listing[n]])) }

C5_Witness ==
    /\ CleanRerunAfterCrash
    /\ Len(listing) = 2
    /\ deletes > 0
    /\ uploads > 0
    /\ store_at_start # store

\* C6 as claimed. A failing fetch does not abort the pass: the pass is
\* never ended by an exception of download_file_to_temp.
C6_FetchFailureContinues ==
    ~(status = "aborted" /\ pc = "download")

\* C7 as claimed. A failing upload does not abort the pass: the pass is
\* never ended by an exception of upload_to_s3.
C7_UploadFailureScoped ==
    ~(status = "aborted" /\ pc \in {"upload", "upload_new"})

\* C8 as claimed. A failing delete does not abort the pass: the pass is
\* never ended by an exception of the delete of an orphaned key.
C8_DeleteFailureContinues ==
    ~(status = "aborted" /\ pc = "delete")

\* The last response is the one to the request for the listing, and it is
\* an error.
ListingFailed ==
    /\ status \in {"running", "crashed", "aborted", "synced"}
    /\ fetches = 0
    /\ (response.raised \/ response.status_code >= 400)

\* C9. Fails closed: when the listing cannot be obtained or the inventory
\* cannot be enumerated, the pass is aborted with an error and has issued
\* no delete and no upload, and the bucket is as the pass found it.
C9_FailsClosed ==
    (ListingFailed \/ (status = "aborted" /\ pc = "inventory")) =>
       /\ status = "aborted"
       /\ deletes = 0
       /\ uploads = 0
       /\ store = store_at_start

C9_Witness ==
    /\ status = "aborted"
    /\ pc = "inventory"
    /\ ~(Present(store) \subseteq SourceNames)
    /\ Len(listing) > 0

\* C10 as claimed. Transient files are released: when a pass is over, by
\* return or by exception, no temporary file it created is left.
C10_TempFilesReleased ==
    status \in {"synced", "aborted"} => tempFiles = {}


\* ------------------------------------------- properties of single entries
\* The logical name of the n-th source entry.
NameOf(n) == listing[n][Len(listing[n])]

\* The bytes of the n-th source entry.
BytesOf(n) == content[listing[n]]

\* The hex MD5 digest of bytes c.
Md5Of(c) == [quoted |-> FALSE, algo |-> "md5", of |-> c.bytes]

\* A fingerprint of the store without its quotes.
Unquoted(e) == [quoted |-> FALSE, algo |-> e.algo, of |-> e.of]

\* The fingerprint, without its quotes, the store gives bytes c on upload.
AssignedTag(c) ==
    [quoted |-> FALSE,
     algo |-> IF c.multipart THEN "md5-of-parts" ELSE "md5",
     of |-> c.bytes]

\* No other source entry has the logical name of the n-th.
UniqueName(n) ==
    \A m \in 1..Len(listing) : m # n => NameOf(m) # NameOf(n)

\* upload_to_s3 calls of this pass for entries 1..n of logical name k.
RECURSIVE UploadsUpTo(_, _)
UploadsUpTo(k, n) ==
    IF n = 0
    THEN 0
    ELSE UploadsUpTo(k, n - 1) + (IF NameOf(n) = k THEN attempts[n] ELSE 0)

UploadsFor(k) == UploadsUpTo(k, Len(listing))

\* When the pass started the bucket held the n-th entry's name under a
\* fingerprint other than the digest of the entry's bytes.
ChangedAtStart(n) ==
    /\ NameOf(n) \in DOMAIN store_at_start
    /\ Unquoted(store_at_start[NameOf(n)]) # Md5Of(BytesOf(n))

\* When the pass started the bucket held the n-th entry's name under the
\* digest of the entry's bytes.
UpToDateAtStart(n) ==
    /\ NameOf(n) \in DOMAIN store_at_start
    /\ Unquoted(store_at_start[NameOf(n)]) = Md5Of(BytesOf(n))

\* C11 as claimed. Changed content: after a pass that returned and met no
\* error, every entry whose name was stored under another fingerprint has
\* had exactly one upload for its name, and the name is stored under the
\* digest of the entry's bytes.
C11_ChangedUploadedOnceDigest ==
    (status = "synced" /\ ~failed) =>
       \A n \in 1..Len(listing) :
          ChangedAtStart(n) =>
             /\ UploadsFor(NameOf(n)) = 1
             /\ NameOf(n) \in DOMAIN store
             /\ Unquoted(store[NameOf(n)]) = Md5Of(BytesOf(n))

\* C11 as amended. Changed content: after a pass that returned and met no
\* error, every entry whose name no other entry shares and was stored
\* under another fingerprint has had exactly one upload for its name, and
\* the name is stored under the fingerprint the store gave the uploaded
\* bytes, which is their digest when they went up in a single part.
C11_ChangedUploadedOnce ==
    (status = "synced" /\ ~failed) =>
       \A n \in 1..Len(listing) :
          (ChangedAtStart(n) /\ UniqueName(n)) =>
             /\ UploadsFor(NameOf(n)) = 1
             /\ NameOf(n) \in DOMAIN store
             /\ Unquoted(store[NameOf(n)]) = AssignedTag(BytesOf(n))
             /\ (~BytesOf(n).multipart =>
                    Unquoted(store[NameOf(n)]) = Md5Of(BytesOf(n)))

C11_Witness ==
    /\ status = "synced" /\ ~failed
    /\ Len(listing) = 2
    /\ \E n \in 1..Len(listing) :
          /\ ChangedAtStart(n) /\ UniqueName(n)
          /\ ~BytesOf(n).multipart
          /\ UploadsFor(NameOf(n)) = 1
          /\ Unquoted(store[NameOf(n)]) = Md5Of(BytesOf(n))


Snapshot == { s3_files[n] : n \in 1..Len(s3_files) }

\* C13. Exact delete set: once the delete loop of a pass is over, and until
\* the pass is, no key of the inventory snapshot that is not a source
\* logical name is left in the bucket; and no step ever removes from the
\* bucket a key that is a source logical name or that is not in the
\* snapshot.
C13_ExactDeleteSet ==
    /\ []((status \in {"running", "crashed", "aborted", "synced"} /\ PastDeletion) =>
            \A k \in Snapshot : k \notin SourceNames => k \notin DOMAIN store)
    /\ [][ \A k \in (DOMAIN store) \ (DOMAIN store') :
              k \notin SourceNames /\ k \in Snapshot ]_vars

C13_Witness ==
    /\ status = "running"
    /\ pc = "download"
    /\ deletes > 1
    /\ \E k \in Snapshot : k \in SourceNames /\ k \in DOMAIN store

\* C14. Empty source: a pass over an empty listing that returns having met
\* no error has issued as many deletes as the bucket held objects when it
\* started and no upload, and leaves the bucket empty.
C14_EmptySource ==
    (status = "synced" /\ ~failed /\ Len(listing) = 0) =>
       /\ deletes = Cardinality(DOMAIN store_at_start)
       /\ uploads = 0
       /\ DOMAIN store = {}

C14_Witness ==
    /\ status = "synced" /\ ~failed
    /\ Len(listing) = 0
    /\ deletes = 3


\* C15. Tolerance of concurrent external mutation, with another actor
\* deleting or writing a key during the pass: a pass that meets no error is
\* never aborted; the delete of a key that is no longer there changes
\* nothing and the delete loop goes on; and when the lookup of an entry
\* finds its key absent the entry goes to the upload of a new file.
C15_ExternalMutationTolerated ==
    /\ [](~failed => status # "aborted")
    /\ [][ /\ ( /\ status = "running" /\ pc = "delete"
                /\ deletes' = deletes + 1
                /\ status' = "running"
                /\ s3_files[i] \notin DOMAIN store )
              => (store' = store /\ i' = i + 1 /\ pc' = "delete")
           /\ ( /\ status = "running" /\ pc = "compare"
                /\ status' = "running"
                /\ pc' # "compare"
                /\ file_urls[j][Len(file_urls[j])] \notin DOMAIN store )
              => (pc' = "upload_new" /\ j' = j)
         ]_vars

\* Another actor deleted an entry's key between the entry's download and
\* its lookup, and the pass went on to return with the key stored again.
C15_Witness ==
    /\ status = "synced" /\ ~failed
    /\ ext.op = "delete"
    /\ ext.at = "compare"
    /\ ext.n \in 1..Len(listing)
    /\ ext.key = NameOf(ext.n)
    /\ UpToDateAtStart(ext.n)
    /\ attempts[ext.n] = 1
    /\ ext.key \in DOMAIN store

\* Another actor deleted an orphaned key after the inventory was taken and
\* before the delete loop reached it, and the pass went on to return.
C15_WitnessDelete ==
    /\ status = "synced" /\ ~failed
    /\ ext.op = "delete"
    /\ ext.at = "delete"
    /\ ext.n \in 1..Len(s3_files)
    /\ \E m \in ext.n..Len(s3_files) : s3_files[m] = ext.key
    /\ ext.key \notin SourceNames
    /\ deletes = Cardinality(Snapshot \ SourceNames)


\* C16. Duplicate logical names, last wins: after a pass that returned and
\* met no error, a name that several source entries share is stored under
\* the fingerprint of the bytes of the last of them: their digest, or the
\* fingerprint the store gave them on upload.
C16_LastDuplicateWins ==
    (status = "synced" /\ ~failed) =>
       \A n \in 1..Len(listing) :
          (LastOfName(n) /\ ~UniqueName(n)) =>
             /\ NameOf(n) \in DOMAIN store
             /\ Unquoted(store[NameOf(n)])
                   \in { Md5Of(BytesOf(n)), AssignedTag(BytesOf(n)) }

C16_Witness ==
    /\ status = "synced" /\ ~failed
    /\ Len(listing) = 2
    /\ NameOf(1) = NameOf(2)
    /\ BytesOf(1) # BytesOf(2)
    /\ attempts[1] = 1
    /\ attempts[2] = 1
    /\ Unquoted(store[NameOf(2)]) = Md5Of(BytesOf(2))


\* C17 as claimed. fetch_api_data returns 0 if and only if the payload was
\* fetched and stored: when it has returned 0 the bucket holds the payload
\* under s3_file_name, and when the API answered with a status other than
\* 200 it has returned 1 and the key is as the sync left it, absent.
C17_ReturnZeroIffStored ==
    status = "fetched" =>
       /\ fetch_ret = "0" =>
             /\ s3_file_name \in DOMAIN store
             /\ Unquoted(store[s3_file_name]) = Md5Of(ApiPayload)
       /\ response.status_code # 200 =>
             /\ fetch_ret = "1"
             /\ s3_file_name \notin DOMAIN store

\* C18 as claimed. The object written by fetch_api_data survives later
\* syncs: once api_data.json is in the bucket, no step removes it.
C18_ApiDataSurvives ==
    [][ (s3_file_name \in DOMAIN store) => (s3_file_name \in DOMAIN store') ]_vars


\* C19 as claimed. Normal return means mirrored: whenever the pass has
\* returned, with or without an error that upload_to_s3 dropped, the
\* bucket holds exactly the source logical names, and each under the
\* fingerprint of the fetched bytes of the last source entry of that name
\* (read generously: their digest, or the fingerprint the store gives
\* them on upload).
C19_NormalReturnMirrored ==
    (status = "synced" /\ pc = "synced") =>
       /\ DOMAIN store = SourceNames
       /\ \A n \in 1..Len(listing) :
             LastOfName(n) =>
                /\ NameOf(n) \in DOMAIN store
                /\ Unquoted(store[NameOf(n)])
                      \in { Md5Of(BytesOf(n)), AssignedTag(BytesOf(n)) }

\* C20 as claimed. At most one upload attempt per entry: in every state of
\* a pass, upload_to_s3 has been called at most once for each source
\* entry.
C20_AtMostOneAttempt ==
    \A n \in DOMAIN attempts : attempts[n] <= 1

====
